---------------------------- MODULE Spec2Model ----------------------------
(***************************************************************************)
(* Model of make-it-rain (mir): the shared configuration store, the drop   *)
(* state machine and the frame loop of src/src/matrix.rs, driven by        *)
(* src/src/main.rs.                                                        *)
(*                                                                         *)
(* Numbers.  An f32 is a record [nan, m]: m is the value in thousandths    *)
(* (0.003 is 3, 12.0 is 12000), nan marks the IEEE not-a-number, which     *)
(* compares false with everything.  A vertical position (y, prev_y) is an  *)
(* integer count of 1/Scale rows.  Time is counted in ticks of TickSecs    *)
(* seconds.                                                                *)
(***************************************************************************)
EXTENDS Integers, Sequences, FiniteSets, TLC

VARIABLES
    MIN_TRAIL_ATOMIC,            \* matrix.rs:51
    MAX_TRAIL_ATOMIC,            \* matrix.rs:52
    FRAMERATE,                   \* matrix.rs:56
    GLITCH_PROBABILITY_ATOMIC,   \* matrix.rs:61
    FLICKER_PROBABILITY_ATOMIC,  \* matrix.rs:62
    NEW_DROP_PROBABILITY_ATOMIC, \* matrix.rs:63
    STUCK_PROBABILITY_ATOMIC,    \* matrix.rs:64
    call,                        \* the store call that returned last: [op, arg]
    panicked,                    \* TRUE once a call or step has panicked
    pc,                          \* position of the main thread, main.rs:80 on
    initial_drops,               \* run_matrix parameter, matrix.rs:246
    fps,                         \* run_matrix parameter, matrix.rs:249
    enable_stuck,                \* run_matrix parameter, matrix.rs:250
    terminal,                    \* the sizes the terminal of the run can take
    running,                     \* the AtomicBool of matrix.rs:253
    raw_mode,                    \* terminal in raw mode
    alt_screen,                  \* terminal in the alternate screen
    cleanups,                    \* number of cleanup_terminal calls so far
    cols,                        \* matrix.rs:265
    rows,                        \* matrix.rs:265
    drops,                       \* matrix.rs:267, one slot per column
    sticky_chars,                \* matrix.rs:268, (x, y) -> (char, Instant)
    last_spawn_check,            \* matrix.rs:279
    slot,                        \* index of the for loop of matrix.rs:344
    clock,                       \* Instant::now(), in ticks of the window
    glyph_cells,                 \* screen cells that show a glyph a drop drew
    writes,                      \* terminal writes queued by the last step
    made,                        \* drops MatrixDrop::new built in the last step
    purged,                      \* stuck positions the last step purged
    overdrawn,                   \* stuck positions the last render removed
    resized,                     \* a resize event was handled in this iteration
    upd,                         \* the update call of the last step
    color,                       \* main's color argument and what it resolves to
    thr                          \* two threads calling the trail setters

store == <<MIN_TRAIL_ATOMIC, MAX_TRAIL_ATOMIC, FRAMERATE,
           GLITCH_PROBABILITY_ATOMIC, FLICKER_PROBABILITY_ATOMIC,
           NEW_DROP_PROBABILITY_ATOMIC, STUCK_PROBABILITY_ATOMIC>>

term == <<raw_mode, alt_screen, cleanups>>
grid == <<cols, rows, drops, sticky_chars, last_spawn_check, slot>>
params == <<initial_drops, fps, enable_stuck, terminal>>
hist == <<writes, made, purged, overdrawn, upd>>

loopvars == <<pc, params, running, term, grid, clock, hist, resized,
             glyph_cells>>

aux == <<color, thr>>

vars == <<store, call, panicked, loopvars, aux>>

---------------------------------------------------------------------------
(* f32 values *)

F(v) == [nan |-> FALSE, m |-> v]
NaN == [nan |-> TRUE, m |-> 0]

\* IEEE comparisons: false as soon as one side is NaN.
FLt(a, b) == ~a.nan /\ ~b.nan /\ a.m < b.m
FGt(a, b) == ~a.nan /\ ~b.nan /\ a.m > b.m
FLe(a, b) == ~a.nan /\ ~b.nan /\ a.m <= b.m

\* f32::clamp(self, min, max): x < min gives min, x > max gives max, else x
\* (so NaN is returned as it came).
F32Clamp(x, lo, hi) == IF FLt(x, lo) THEN lo ELSE IF FGt(x, hi) THEN hi ELSE x

\* Ord::clamp(self, min, max) on usize; the caller checks min <= max first,
\* as the library's assert!(min <= max) does.
UsizeClamp(x, lo, hi) == IF x < lo THEN lo ELSE IF x > hi THEN hi ELSE x

Min(a, b) == IF a < b THEN a ELSE b
Max(a, b) == IF a > b THEN a ELSE b

---------------------------------------------------------------------------
(* Configuration constants, matrix.rs:50-66 *)

TRAIL_MIN_LIMIT == 4
TRAIL_MAX_LIMIT == 40
InitMinTrail == 8
InitMaxTrail == 25
InitFramerate == F(12000)
InitGlitch == F(3)
InitFlicker == F(10)
InitNewDrop == F(50)
InitStuck == F(20)
FramerateMin == F(1000)
FramerateMax == F(15000)
ProbMin == F(0)
ProbMax == F(1000)

---------------------------------------------------------------------------
(* Getters and setters, matrix.rs:374-435.  Each setter is given as the    *)
(* value it stores; SetMinTrailPanics / SetMaxTrailPanics are the cases in *)
(* which clamp's assert!(min <= max) fails.                                *)

get_min_trail == MIN_TRAIL_ATOMIC
get_max_trail == MAX_TRAIL_ATOMIC
get_framerate == FRAMERATE
get_glitch_probability == GLITCH_PROBABILITY_ATOMIC
get_flicker_probability == FLICKER_PROBABILITY_ATOMIC
get_stuck_probability == STUCK_PROBABILITY_ATOMIC
get_new_drop_probability == NEW_DROP_PROBABILITY_ATOMIC

\* set_min_trail: len.clamp(TRAIL_MIN_LIMIT, TRAIL_MAX_LIMIT.min(max))
MinTrailHi(maxTrail) == Min(TRAIL_MAX_LIMIT, maxTrail)
SetMinTrailPanics(maxTrail) == TRAIL_MIN_LIMIT > MinTrailHi(maxTrail)
set_min_trail(len, maxTrail) ==
    UsizeClamp(len, TRAIL_MIN_LIMIT, MinTrailHi(maxTrail))

\* set_max_trail: len.clamp(min.max(TRAIL_MIN_LIMIT), TRAIL_MAX_LIMIT)
\* Mutant: the lower bound ignores the paired min_trail.
MaxTrailLo_unpaired(minTrail) == TRAIL_MIN_LIMIT
MaxTrailLo(minTrail) == Max(minTrail, TRAIL_MIN_LIMIT)
SetMaxTrailPanics(minTrail) == MaxTrailLo(minTrail) > TRAIL_MAX_LIMIT
set_max_trail(len, minTrail) ==
    UsizeClamp(len, MaxTrailLo(minTrail), TRAIL_MAX_LIMIT)

set_framerate(rate) == F32Clamp(rate, FramerateMin, FramerateMax)
set_probability(prob) == F32Clamp(prob, ProbMin, ProbMax)

---------------------------------------------------------------------------
(* Arguments the store's callers are modelled with *)

\* usize arguments: below, at, between, at and above the limits, and a
\* large one.
TrailArgs == {0, 5, 30, 41, 2000000000}
\* f32 probabilities: negative, above the range, and NaN.
ProbArgs == {F(-500), F(1500), NaN}
\* f32 frame rates: below and above the range, and NaN.
FpsArgs == {F(0), F(20000), NaN}

---------------------------------------------------------------------------
(* The configuration store used as a library: any setter, any argument,    *)
(* any order.                                                              *)

StoreInit ==
    /\ MIN_TRAIL_ATOMIC = InitMinTrail
    /\ MAX_TRAIL_ATOMIC = InitMaxTrail
    /\ FRAMERATE = InitFramerate
    /\ GLITCH_PROBABILITY_ATOMIC = InitGlitch
    /\ FLICKER_PROBABILITY_ATOMIC = InitFlicker
    /\ NEW_DROP_PROBABILITY_ATOMIC = InitNewDrop
    /\ STUCK_PROBABILITY_ATOMIC = InitStuck

NoCall == [op |-> "none", arg |-> 0, farg |-> F(0)]

CallSetMinTrail(len) ==
    /\ ~panicked
    /\ IF SetMinTrailPanics(get_max_trail)
         THEN /\ panicked' = TRUE
              /\ UNCHANGED MIN_TRAIL_ATOMIC
         ELSE /\ MIN_TRAIL_ATOMIC' = set_min_trail(len, get_max_trail)
              /\ UNCHANGED panicked
    /\ call' = [op |-> "set_min_trail", arg |-> len, farg |-> F(0)]
    /\ UNCHANGED <<MAX_TRAIL_ATOMIC, FRAMERATE, GLITCH_PROBABILITY_ATOMIC,
                   FLICKER_PROBABILITY_ATOMIC, NEW_DROP_PROBABILITY_ATOMIC,
                   STUCK_PROBABILITY_ATOMIC>>
    /\ UNCHANGED <<loopvars, aux>>

CallSetMaxTrail(len) ==
    /\ ~panicked
    /\ IF SetMaxTrailPanics(get_min_trail)
         THEN /\ panicked' = TRUE
              /\ UNCHANGED MAX_TRAIL_ATOMIC
         ELSE /\ MAX_TRAIL_ATOMIC' = set_max_trail(len, get_min_trail)
              /\ UNCHANGED panicked
    /\ call' = [op |-> "set_max_trail", arg |-> len, farg |-> F(0)]
    /\ UNCHANGED <<MIN_TRAIL_ATOMIC, FRAMERATE, GLITCH_PROBABILITY_ATOMIC,
                   FLICKER_PROBABILITY_ATOMIC, NEW_DROP_PROBABILITY_ATOMIC,
                   STUCK_PROBABILITY_ATOMIC>>
    /\ UNCHANGED <<loopvars, aux>>

CallSetFramerate(rate) ==
    /\ ~panicked
    /\ FRAMERATE' = set_framerate(rate)
    /\ call' = [op |-> "set_framerate", arg |-> 0, farg |-> rate]
    /\ UNCHANGED <<MIN_TRAIL_ATOMIC, MAX_TRAIL_ATOMIC,
                   GLITCH_PROBABILITY_ATOMIC, FLICKER_PROBABILITY_ATOMIC,
                   NEW_DROP_PROBABILITY_ATOMIC, STUCK_PROBABILITY_ATOMIC,
                   panicked>>
    /\ UNCHANGED <<loopvars, aux>>

CallSetGlitchProbability(prob) ==
    /\ ~panicked
    /\ GLITCH_PROBABILITY_ATOMIC' = set_probability(prob)
    /\ call' = [op |-> "set_glitch_probability", arg |-> 0, farg |-> prob]
    /\ UNCHANGED <<MIN_TRAIL_ATOMIC, MAX_TRAIL_ATOMIC, FRAMERATE,
                   FLICKER_PROBABILITY_ATOMIC, NEW_DROP_PROBABILITY_ATOMIC,
                   STUCK_PROBABILITY_ATOMIC, panicked>>
    /\ UNCHANGED <<loopvars, aux>>

CallSetFlickerProbability(prob) ==
    /\ ~panicked
    /\ FLICKER_PROBABILITY_ATOMIC' = set_probability(prob)
    /\ call' = [op |-> "set_flicker_probability", arg |-> 0, farg |-> prob]
    /\ UNCHANGED <<MIN_TRAIL_ATOMIC, MAX_TRAIL_ATOMIC, FRAMERATE,
                   GLITCH_PROBABILITY_ATOMIC, NEW_DROP_PROBABILITY_ATOMIC,
                   STUCK_PROBABILITY_ATOMIC, panicked>>
    /\ UNCHANGED <<loopvars, aux>>

CallSetStuckProbability(prob) ==
    /\ ~panicked
    /\ STUCK_PROBABILITY_ATOMIC' = set_probability(prob)
    /\ call' = [op |-> "set_stuck_probability", arg |-> 0, farg |-> prob]
    /\ UNCHANGED <<MIN_TRAIL_ATOMIC, MAX_TRAIL_ATOMIC, FRAMERATE,
                   GLITCH_PROBABILITY_ATOMIC, FLICKER_PROBABILITY_ATOMIC,
                   NEW_DROP_PROBABILITY_ATOMIC, panicked>>
    /\ UNCHANGED <<loopvars, aux>>

CallSetNewDropProbability(prob) ==
    /\ ~panicked
    /\ NEW_DROP_PROBABILITY_ATOMIC' = set_probability(prob)
    /\ call' = [op |-> "set_new_drop_probability", arg |-> 0, farg |-> prob]
    /\ UNCHANGED <<MIN_TRAIL_ATOMIC, MAX_TRAIL_ATOMIC, FRAMERATE,
                   GLITCH_PROBABILITY_ATOMIC, FLICKER_PROBABILITY_ATOMIC,
                   STUCK_PROBABILITY_ATOMIC, panicked>>
    /\ UNCHANGED <<loopvars, aux>>

\* Instants are kept on a window that ends at the present.  The timestamp
\* of a stuck character is compared with 10 s only, in whole seconds: it
\* is kept by the whole ticks of TickSecs that lie between it and the
\* present, on a window of MaxClock ticks: the clock reads MaxClock, an
\* instant less than a tick back reads MaxClock too, and an instant
\* MaxClock ticks back or more reads 0.  last_spawn_check is compared with
\* 0.2 s only: it is kept in steps of SpawnStepMs on a window of
\* SpawnWindow steps, the present reads SpawnWindow, and an instant
\* SpawnWindow steps back or more reads 0.
MaxClock == 2
SpawnStepMs == 250
SpawnWindow == 1

\* The state of the process before main runs.
LoopIdle ==
    /\ pc = "main"
    /\ initial_drops = 0
    /\ fps = 0
    /\ enable_stuck = FALSE
    /\ terminal = [start |-> {}, resize |-> {}, quit_typed |-> FALSE]
    /\ running = TRUE
    /\ raw_mode = FALSE
    /\ alt_screen = FALSE
    /\ cleanups = 0
    /\ cols = 0
    /\ rows = 0
    /\ drops = [x \in {} |-> [none |-> TRUE]]
    /\ sticky_chars = [p \in {} |-> [none |-> TRUE]]
    /\ last_spawn_check = 0
    /\ slot = 0
    /\ clock = MaxClock
    /\ glyph_cells = {}
    /\ writes = {}
    /\ made = {}
    /\ purged = {}
    /\ overdrawn = {}
    /\ resized = FALSE
    /\ upd = [called |-> FALSE]

\* No color argument read yet, no thread started.
NoColor == [resolved |-> FALSE]
NoThreads == [t \in {} |-> NoCall]

Init ==
    /\ StoreInit
    /\ call = NoCall
    /\ panicked = FALSE
    /\ LoopIdle
    /\ color = NoColor
    /\ thr = NoThreads

NextStore ==
    \/ \E len \in TrailArgs : CallSetMinTrail(len)
    \/ \E len \in TrailArgs : CallSetMaxTrail(len)
    \/ \E rate \in FpsArgs : CallSetFramerate(rate)
    \/ \E prob \in ProbArgs : CallSetGlitchProbability(prob)
    \/ \E prob \in ProbArgs : CallSetFlickerProbability(prob)
    \/ \E prob \in ProbArgs : CallSetStuckProbability(prob)
    \/ \E prob \in ProbArgs : CallSetNewDropProbability(prob)

SpecStore == Init /\ [][NextStore]_vars

---------------------------------------------------------------------------
(* Units and bounds of the frame loop's model *)

\* Positions are counted in 1/Scale rows, speeds in cells of 1/SpeedDen
\* (a cell c holds the speeds of [c/SpeedDen, (c+1)/SpeedDen)), time in
\* ticks of TickSecs seconds.
Scale == 1
SpeedDen == 1
TickSecs == 5
\* The longest advance of a drop in one update that is explored, in rows.
MaxAdvance == 11

\* matrix.rs:86: speed = 1.0 + gen::<f32>() * SPEED_VARIATION (0.3): the
\* cell of 1.0, and the last cell below 1.3.
SPEED_BASE == SpeedDen
SPEED_VARIATION == (13 * SpeedDen + 9) \div 10 - 1 - SpeedDen
\* matrix.rs:118-119: delta in -0.05..0.05 (in cells, rounded up to a whole
\* cell), clamp(0.5, 3.0)
SPEED_JITTER_AMOUNT == (SpeedDen + 19) \div 20
SPEED_LO == SpeedDen \div 2
SPEED_HI == 3 * SpeedDen
\* matrix.rs:316: entries of 10 whole seconds or more are purged
RETENTION_SECS == 10
\* matrix.rs:322: spawn check when more than 0.2 s have passed
SPAWN_INTERVAL_MS == 200
\* matrix.rs:301: a resize reseeds a column when gen::<f32>() < 0.3
RESEED_PROBABILITY == F(300)

\* The palette handed to run_matrix, and matrix.rs:48 cut to one glyph.
Charset == {"a"}
GLITCH_CHARS == {"#"}

\* Terminal sizes (cols, rows) reported by size() and by resize events.
Sizes == {<<1, 2>>, <<1, 1>>, <<1, 0>>, <<2, 0>>, <<0, 1>>, <<2, 1>>, <<3, 1>>}
\* Outcomes of speed * dt * fps in update, in 1/Scale rows.  dt is the
\* wall-clock time since the drop was built or last updated: next to
\* nothing for a drop updated in the frame that built it, a frame's time
\* or any longer stall otherwise.  An advance of MaxAdvance rows stands for
\* every longer one: on the terminals explored (2 rows at most, trails of
\* 5 at most) it carries any drop from its start past rows + length.
Advances == 0..(MaxAdvance * Scale)
\* Outcomes of gen::<f32>() * SPEED_VARIATION in new, in speed cells.
SpeedDraws == 0..SPEED_VARIATION
\* Outcomes of gen_range(-SPEED_JITTER_AMOUNT..SPEED_JITTER_AMOUNT): the
\* cells a speed can move by.
JitterDeltas == (0 - SPEED_JITTER_AMOUNT)..SPEED_JITTER_AMOUNT

None == [none |-> TRUE]
NoUpdate == [called |-> FALSE]
EmptyMap == [p \in {} |-> None]

---------------------------------------------------------------------------
(* Random draws *)

\* rng.gen::<f32>() < p, the draw being in [0, 1): TRUE can come out when
\* p > 0, FALSE unless p >= 1; a NaN p always gives FALSE.
RollOutcomes(p) ==
    {b \in BOOLEAN : (b => FGt(p, F(0))) /\ (~b => ~FLe(F(1000), p))}

\* rng.gen_bool(p) panics unless 0 <= p <= 1.
GenBoolPanics(p) == ~(FLe(F(0), p) /\ FLe(p, F(1000)))

---------------------------------------------------------------------------
(* MatrixDrop, matrix.rs:70-230 *)

\* The lengths gen_range(get_min_trail()..=get_max_trail()) can return; the
\* call panics on an empty range.
TrailRange == get_min_trail..get_max_trail
NewPanics == get_min_trail > get_max_trail

\* The glyph vector `chars`, kept as its length and its last glyph: the
\* last glyph is the one should_leave_sticky reads (matrix.rs:222); the
\* others are only printed, and the model does not follow which glyph a
\* cell shows.
Glyphs(n, ch) == [len |-> n, last |-> ch]

\* Mutant: the drop starts with its head on the first row.
New_onscreen(x, len, draw, ch) ==
    [x |-> x, y |-> 0, prev_y |-> 0, length |-> len,
     speed |-> SPEED_BASE + draw, chars |-> Glyphs(len, ch)]
\* MatrixDrop::new with its three draws: the length, the speed draw and
\* the glyphs.
New(x, len, draw, ch) ==
    [x |-> x, y |-> 0 - len * Scale, prev_y |-> 0 - len * Scale,
     length |-> len, speed |-> SPEED_BASE + draw, chars |-> Glyphs(len, ch)]

\* Every drop MatrixDrop::new(x, ..) can return: `length` glyphs, each
\* chosen from the palette.
NewDrops(x) ==
    UNION {{New(x, len, draw, ch) : draw \in SpeedDraws, ch \in Charset} :
           len \in TrailRange}

\* The jitter of matrix.rs:117-120: not fired, or fired with a delta.
NoJitter == [fire |-> FALSE, delta |-> 0]
Jitters ==
    {NoJitter} \cup {[fire |-> TRUE, delta |-> dl] : dl \in JitterDeltas}

\* The glyph resamples of matrix.rs:128-136, by what they do to the last
\* glyph: it is kept, or replaced by a palette or a glitch glyph.
NoResample == [redrawn |-> FALSE]
Resamples ==
    {NoResample} \cup
    {[redrawn |-> TRUE, ch |-> g] : g \in Charset \cup GLITCH_CHARS}

\* Mutant: expiry is reported as soon as the head reaches rows + length.
Expired_early(y, rws, len) == y >= (rws + len) * Scale
\* matrix.rs:123: self.y > rows as f32 + self.length as f32
Expired(y, rws, len) == y > (rws + len) * Scale

\* matrix.rs:119: (self.speed + delta).clamp(0.5, 3.0)
SpeedClamp(v) == IF v < SPEED_LO THEN SPEED_LO ELSE IF v > SPEED_HI THEN SPEED_HI ELSE v

\* MatrixDrop::update.  adv is the value of self.speed * dt * fps (dt is
\* wall-clock time, so every value on the position lattice can come out),
\* jit the jitter draw, resample the glyphs redrawn.  Gives the drop after
\* the call and the returned flag.
Update(d, rws, adv, jit, resample) ==
    LET y1 == d.y + adv
        speed1 == IF jit.fire
                    THEN SpeedClamp(d.speed + jit.delta)
                    ELSE d.speed
        out == Expired(y1, rws, d.length)
        chars1 == IF out \/ ~resample.redrawn \/ d.chars.len = 0
                    THEN d.chars
                    ELSE [d.chars EXCEPT !.last = resample.ch]
    IN [drop |-> [d EXCEPT !.prev_y = d.y, !.y = y1, !.speed = speed1,
                           !.chars = chars1],
        expired |-> out]

\* `as u16` of a non-negative i32, and of a non-negative f32 (truncation,
\* saturating at u16::MAX).
U16_MAX == 65535
I32AsU16(n) == n % (U16_MAX + 1)
F32AsU16(ys) == Min(ys \div Scale, U16_MAX)

\* matrix.rs:151-152: (pos - length).floor() as i32
TailRow(pos, len) == (pos - len * Scale) \div Scale

\* matrix.rs:158-165: the blanks queued for the cells the tail has left.
ClearWrites(d, rws, sticky) ==
    LET old_tail_y == TailRow(d.prev_y, d.length)
        new_tail_y == TailRow(d.y, d.length)
        clear_start == Min(old_tail_y, new_tail_y)
        clear_end == Max(old_tail_y, new_tail_y)
    IN {[col |-> d.x, row |-> I32AsU16(y), kind |-> "blank"] :
           y \in {y \in clear_start..clear_end :
                     /\ y >= 0
                     /\ I32AsU16(y) < rws
                     /\ <<d.x, I32AsU16(y)>> \notin DOMAIN sticky}}

\* Mutant: only glyphs above the top of the screen are skipped.
Visible_nobottom(d, rws, i) == d.y - (i - 1) * Scale >= 0
\* matrix.rs:172-175: glyph i (1 is the head) is drawn unless
\* char_y < 0.0 || char_y >= rows as f32
Visible(d, rws, i) ==
    LET char_y == d.y - (i - 1) * Scale
    IN ~(char_y < 0 \/ char_y >= rws * Scale)

GlyphRows(d, rws) ==
    {F32AsU16(d.y - (i - 1) * Scale) :
        i \in {i \in 1..d.length : Visible(d, rws, i)}}

\* matrix.rs:206-210: the glyphs queued.
GlyphWrites(d, rws) ==
    {[col |-> d.x, row |-> r, kind |-> "glyph"] : r \in GlyphRows(d, rws)}

\* matrix.rs:177-178: gen_bool of the flicker and glitch probabilities is
\* evaluated for every glyph drawn.
RenderPanics(d, rws) ==
    /\ GlyphRows(d, rws) # {}
    /\ \/ GenBoolPanics(get_flicker_probability)
       \/ GenBoolPanics(get_glitch_probability)

\* Mutant: render leaves the stuck table alone.
RenderSticky_kept(d, rws, sticky) == sticky
\* matrix.rs:208: sticky_chars.remove(&pos) for every glyph drawn.
RenderSticky(d, rws, sticky) ==
    [p \in DOMAIN sticky \ {<<d.x, r>> : r \in GlyphRows(d, rws)} |->
        sticky[p]]

\* MatrixDrop::render: what it queues.
Render(d, rws, sticky) == ClearWrites(d, rws, sticky) \cup GlyphWrites(d, rws)

\* The cells showing a drop's glyph once the writes ws are on the screen:
\* a blank or a stuck glyph replaces what the cell showed, a glyph of a
\* drop is shown.
Shown(cells, ws) ==
    (cells \ {<<w.col, w.row>> : w \in {v \in ws : v.kind \in {"blank", "stuck"}}})
        \cup {<<w.col, w.row>> : w \in {v \in ws : v.kind = "glyph"}}

\* matrix.rs:177-178 and 198-204, for one glyph: whether it is printed as
\* a space; the glitch draw is tested first, then the flicker draw.
BlankOutcomes ==
    {flicker /\ ~glitch :
        flicker \in RollOutcomes(get_flicker_probability),
        glitch \in RollOutcomes(get_glitch_probability)}
\* The draws of one render, one for every glyph drawn: the rows whose
\* glyph is printed as a space.
Flickers(d, rws) ==
    {B \in SUBSET GlyphRows(d, rws) :
        \A r \in GlyphRows(d, rws) : (r \in B) \in BlankOutcomes}
Flickered(ws, flick) ==
    {[w EXCEPT !.kind = "blank"] :
        w \in {v \in ws : v.kind = "glyph" /\ v.row \in flick}}

\* MatrixDrop::should_leave_sticky.  roll is the outcome of
\* gen::<f32>() < get_stuck_probability(); a candidate is drawn when the
\* drop is past the screen and the roll wins.
StickyWins(d, rws, roll) ==
    /\ Expired(d.y, rws, d.length)
    /\ roll
    /\ d.chars.len > 0
\* gen_range(0..rows) panics on the empty range.
StickyPanics(d, rws, roll) == StickyWins(d, rws, roll) /\ rws = 0
\* Mutant: the candidate carries a glyph drawn from the palette.
StickyCandidates_palette(d, rws, roll) ==
    IF StickyWins(d, rws, roll)
      THEN {[x |-> d.x, y |-> stick_y, ch |-> g] :
               stick_y \in 0..(rws - 1), g \in Charset}
      ELSE {}
StickyCandidates(d, rws, roll) ==
    IF StickyWins(d, rws, roll)
      THEN {[x |-> d.x, y |-> stick_y, ch |-> d.chars.last] :
               stick_y \in 0..(rws - 1)}
      ELSE {}

---------------------------------------------------------------------------
(* main, main.rs:80-146 *)

\* The runs explored, a command line and the terminal it is started in
\* (the sizes size() can report at startup, and those a resize event can
\* carry).  12 frames per second and the default glitch probability
\* throughout, the default flicker probability in all but the last.
\*   more drops than columns, stuck glyphs with an even roll, spawning,
\*     on a terminal of one column and two rows, or of no column;
\*   one drop and no spawning, without stuck glyphs, on a terminal of two
\*     columns and no row that can lose its columns;
\*   no drop and no spawning, stuck glyphs with an even roll and two trail
\*     lengths, on a terminal of one column that loses its only row;
\*   one drop and no spawning, without stuck glyphs, `--flicker-prob NaN`
\*     (the setter stores the NaN), on a terminal of one column and two
\*     rows that keeps its size;
\*   two drops, and three drops with two trail lengths, on a terminal of
\*     two or of three columns, where a quit key typed while the program
\*     starts is the first event the loop reads.
Narrow == {<<1, 2>>, <<0, 1>>}
Wide == {<<2, 1>>, <<3, 1>>}
CliArgs ==
    {[min_trail |-> 4, max_trail |-> 4, glitch_prob |-> F(3),
      flicker_prob |-> F(10), stuck_prob |-> F(500), drop_prob |-> F(50),
      fps |-> 12, drops |-> 3, no_stuck |-> FALSE,
      terminal |-> [start |-> Narrow, resize |-> Narrow,
                    quit_typed |-> FALSE]],
     [min_trail |-> 4, max_trail |-> 4, glitch_prob |-> F(3),
      flicker_prob |-> F(10), stuck_prob |-> F(500), drop_prob |-> F(0),
      fps |-> 12, drops |-> 1, no_stuck |-> TRUE,
      terminal |-> [start |-> {<<2, 0>>}, resize |-> {<<0, 1>>},
                    quit_typed |-> FALSE]],
     [min_trail |-> 4, max_trail |-> 5, glitch_prob |-> F(3),
      flicker_prob |-> F(10), stuck_prob |-> F(500), drop_prob |-> F(0),
      fps |-> 12, drops |-> 0, no_stuck |-> FALSE,
      terminal |-> [start |-> {<<1, 1>>}, resize |-> {<<1, 0>>},
                    quit_typed |-> FALSE]],
     [min_trail |-> 4, max_trail |-> 4, glitch_prob |-> F(3),
      flicker_prob |-> NaN, stuck_prob |-> F(500), drop_prob |-> F(0),
      fps |-> 12, drops |-> 1, no_stuck |-> TRUE,
      terminal |-> [start |-> {<<1, 2>>}, resize |-> {},
                    quit_typed |-> FALSE]],
     [min_trail |-> 4, max_trail |-> 4, glitch_prob |-> F(3),
      flicker_prob |-> F(10), stuck_prob |-> F(500), drop_prob |-> F(50),
      fps |-> 12, drops |-> 2, no_stuck |-> FALSE,
      terminal |-> [start |-> Wide, resize |-> {}, quit_typed |-> TRUE]],
     [min_trail |-> 4, max_trail |-> 5, glitch_prob |-> F(3),
      flicker_prob |-> F(10), stuck_prob |-> F(500), drop_prob |-> F(50),
      fps |-> 12, drops |-> 3, no_stuck |-> FALSE,
      terminal |-> [start |-> Wide, resize |-> {}, quit_typed |-> TRUE]]}

\* main.rs:107-113 and 138-145: the seven setters in main's order, then the
\* call of run_matrix.
Main(cli) ==
    /\ pc = "main"
    /\ ~panicked
    /\ LET min1 == set_min_trail(cli.min_trail, get_max_trail)
       IN /\ ~SetMinTrailPanics(get_max_trail)
          /\ ~SetMaxTrailPanics(min1)
          /\ GLITCH_PROBABILITY_ATOMIC' = set_probability(cli.glitch_prob)
          /\ FLICKER_PROBABILITY_ATOMIC' = set_probability(cli.flicker_prob)
          /\ MIN_TRAIL_ATOMIC' = min1
          /\ MAX_TRAIL_ATOMIC' = set_max_trail(cli.max_trail, min1)
          /\ NEW_DROP_PROBABILITY_ATOMIC' = set_probability(cli.drop_prob)
          /\ FRAMERATE' = set_framerate(F(cli.fps * 1000))
          /\ STUCK_PROBABILITY_ATOMIC' = set_probability(cli.stuck_prob)
    /\ call' = [op |-> "set_stuck_probability", arg |-> 0,
                farg |-> cli.stuck_prob]
    /\ initial_drops' = cli.drops
    /\ fps' = cli.fps
    /\ enable_stuck' = ~cli.no_stuck
    /\ terminal' = cli.terminal
    /\ pc' = "startup"
    /\ UNCHANGED <<panicked, running, term, resized, grid, clock, hist>>
    /\ UNCHANGED <<aux, glyph_cells>>

---------------------------------------------------------------------------
(* run_matrix, matrix.rs:245-370 *)

ClearAll == [col |-> 0, row |-> 0, kind |-> "clear"]
EmptyGrid(n) == [x \in 0..(n - 1) |-> None]
EmptySlots(g) == {x \in DOMAIN g : g[x] = None}

\* One fresh drop for every column of S, each built by MatrixDrop::new with
\* its own column.
FreshFor(S) ==
    {f \in [S -> UNION {NewDrops(x) : x \in S}] : \A x \in S : f[x].x = x}

\* Mutant: the seeded drop is stored in the slot of the next column.
Seeded_shifted(g, f) ==
    [x \in DOMAIN g |->
        IF ((x + 1) % Cardinality(DOMAIN g)) \in DOMAIN f
          THEN f[(x + 1) % Cardinality(DOMAIN g)] ELSE g[x]]
\* drops[col as usize] = Some(MatrixDrop::new(col, ..)) for the columns of f.
Seeded(g, f) == [x \in DOMAIN g |-> IF x \in DOMAIN f THEN f[x] ELSE g[x]]

\* Mutant: the columns are drawn one by one, and a column can be drawn
\* again.
SeedColumns_repeated(n, ncols) ==
    {S \in SUBSET (0..(ncols - 1)) :
        /\ Cardinality(S) <= Min(n, ncols)
        /\ S = {} => Min(n, ncols) = 0}
\* matrix.rs:271-274: columns.shuffle(..) then take(initial_drops.min(cols)):
\* the sets of columns the shuffled prefix can hold.
SeedColumns(n, ncols) ==
    {S \in SUBSET (0..(ncols - 1)) : Cardinality(S) = Min(n, ncols)}

ToPanic ==
    /\ panicked' = TRUE
    /\ pc' = "panicked"
    /\ UNCHANGED <<store, call, params, running, term, resized, grid, clock,
                   hist, glyph_cells>>

\* A panic in the for loop of matrix.rs:344-361 after drop.update has
\* changed the drop d of the slot in place, with the stuck table as it is
\* when the panic comes and the writes ws queued before it: what is queued
\* is in stdout's buffer and reaches the terminal when the process exits.
PanicAfterUpdate(d, sticky, ws) ==
    /\ panicked' = TRUE
    /\ pc' = "panicked"
    /\ drops' = [drops EXCEPT ![slot] = d]
    /\ sticky_chars' = sticky
    /\ writes' = ws
    /\ glyph_cells' = Shown(glyph_cells, ws)
    /\ UNCHANGED <<store, call, params, running, term, resized, cols, rows,
                   last_spawn_check, slot, clock, made, purged, overdrawn,
                   upd>>

\* matrix.rs:253-259: the flag is created set and the Ctrl+C handler is
\* registered; from here on the handler can run.
SetHandler ==
    /\ pc = "startup"
    /\ pc' = "starting"
    /\ UNCHANGED <<store, call, panicked, params, running, term, resized, grid,
                   clock, hist>>
    /\ UNCHANGED <<aux, glyph_cells>>

\* matrix.rs:261-279: the frame rate, raw mode, the size, the grid, the
\* seeding of initial_drops.min(cols) shuffled columns, the alternate
\* screen.
Startup(size) ==
    /\ pc = "starting"
    /\ size \in terminal.start
    /\ \E S \in SeedColumns(initial_drops, size[1]) :
         /\ IF S # {} /\ NewPanics
              THEN \* MatrixDrop::new panics at matrix.rs:275: the frame
                   \* rate is set and raw mode is on, the alternate
                   \* screen is not entered.
                   /\ FRAMERATE' = set_framerate(F(fps * 1000))
                   /\ raw_mode' = TRUE
                   /\ cols' = size[1]
                   /\ rows' = size[2]
                   /\ drops' = EmptyGrid(size[1])
                   /\ sticky_chars' = EmptyMap
                   /\ panicked' = TRUE
                   /\ pc' = "panicked"
                   /\ UNCHANGED <<MIN_TRAIL_ATOMIC, MAX_TRAIL_ATOMIC,
                                  GLITCH_PROBABILITY_ATOMIC,
                                  FLICKER_PROBABILITY_ATOMIC,
                                  NEW_DROP_PROBABILITY_ATOMIC,
                                  STUCK_PROBABILITY_ATOMIC, call, params,
                                  running, alt_screen, cleanups,
                                  last_spawn_check, slot, clock, hist,
                                  resized, glyph_cells>>
              ELSE /\ \E f \in FreshFor(S) :
                        /\ drops' = Seeded(EmptyGrid(size[1]), f)
                        /\ made' = {f[x] : x \in S}
                   /\ FRAMERATE' = set_framerate(F(fps * 1000))
                   /\ raw_mode' = TRUE
                   /\ alt_screen' = TRUE
                   /\ cols' = size[1]
                   /\ rows' = size[2]
                   /\ sticky_chars' = EmptyMap
                   /\ last_spawn_check' = SpawnWindow
                   /\ slot' = 0
                   /\ writes' = {ClearAll}
                   /\ glyph_cells' = {}
                   /\ upd' = NoUpdate
                   /\ purged' = {}
                   /\ overdrawn' = {}
                   /\ pc' = "top"
                   /\ UNCHANGED <<MIN_TRAIL_ATOMIC, MAX_TRAIL_ATOMIC,
                                  GLITCH_PROBABILITY_ATOMIC,
                                  FLICKER_PROBABILITY_ATOMIC,
                                  NEW_DROP_PROBABILITY_ATOMIC,
                                  STUCK_PROBABILITY_ATOMIC, call, panicked,
                                  params, running, cleanups, clock,
                                  resized>>
    /\ UNCHANGED aux

InLoop == pc \in {"top", "poll", "purge", "spawn", "stuck", "drops", "flush"}

\* The handler is registered and run_matrix has not returned.
HandlerSet == pc = "starting" \/ InLoop \/ pc = "cleanup"

\* matrix.rs:257-259: the Ctrl+C handler, on its own thread.
Interrupt ==
    /\ HandlerSet
    /\ running
    /\ running' = FALSE
    /\ UNCHANGED <<store, call, panicked, pc, params, term, resized, grid, clock, hist>>
    /\ UNCHANGED <<aux, glyph_cells>>

NoHistory ==
    /\ writes' = {}
    /\ made' = {}
    /\ purged' = {}
    /\ overdrawn' = {}
    /\ upd' = NoUpdate

\* matrix.rs:283: the flag is loaded at the top of the loop and is set; the
\* iteration goes on to the poll, whatever the handler stores from here on.
EnterFrame ==
    /\ pc = "top"
    /\ running
    /\ pc' = "poll"
    /\ UNCHANGED <<store, call, panicked, params, running, term, resized, grid,
                   clock, hist>>
    /\ UNCHANGED <<aux, glyph_cells>>

\* matrix.rs:283-285: the flag is clear at the top of the loop.
ExitLoop ==
    /\ pc = "top"
    /\ ~running
    /\ pc' = "cleanup"
    /\ NoHistory
    /\ UNCHANGED <<store, call, panicked, params, running, term, resized, grid, clock>>
    /\ UNCHANGED <<aux, glyph_cells>>

\* matrix.rs:288: poll times out, or matrix.rs:293 and 308: a key that is
\* not a quit key, or another event.
PollNothing ==
    /\ pc = "poll"
    /\ ~terminal.quit_typed
    /\ pc' = "purge"
    /\ NoHistory
    /\ UNCHANGED <<store, call, panicked, params, running, term, resized, grid, clock>>
    /\ UNCHANGED <<aux, glyph_cells>>

\* matrix.rs:291-292: q, Q, Esc or Ctrl+C.
KeyQuit ==
    /\ pc = "poll"
    /\ pc' = "cleanup"
    /\ NoHistory
    /\ UNCHANGED <<store, call, panicked, params, running, term, resized, grid, clock>>
    /\ UNCHANGED <<aux, glyph_cells>>

\* Mutant: the resize keeps the stuck entries.
Cleared_kept(sticky) == sticky
\* matrix.rs:298: sticky_chars.clear()
Cleared(sticky) == EmptyMap

\* matrix.rs:295-307: Event::Resize(new_cols, new_rows).
Resize(size) ==
    /\ pc = "poll"
    /\ size \in terminal.resize
    /\ \E S \in SUBSET (0..(size[1] - 1)) :
         /\ \A x \in 0..(size[1] - 1) :
                (x \in S) \in RollOutcomes(RESEED_PROBABILITY)
         /\ IF S # {} /\ NewPanics
              THEN \* MatrixDrop::new panics at matrix.rs:302: the size is
                   \* taken, the table emptied and the screen cleared;
                   \* the old grid has not been replaced.
                   /\ cols' = size[1]
                   /\ rows' = size[2]
                   /\ sticky_chars' = Cleared(sticky_chars)
                   /\ writes' = {ClearAll}
                   /\ glyph_cells' = {}
                   /\ made' = {}
                   /\ upd' = NoUpdate
                   /\ purged' = {}
                   /\ overdrawn' = {}
                   /\ resized' = TRUE
                   /\ panicked' = TRUE
                   /\ pc' = "panicked"
                   /\ UNCHANGED <<store, call, params, running, term,
                                  drops, last_spawn_check, slot, clock>>
              ELSE /\ \E f \in FreshFor(S) :
                        /\ drops' = Seeded(EmptyGrid(size[1]), f)
                        /\ made' = {f[x] : x \in S}
                   /\ cols' = size[1]
                   /\ rows' = size[2]
                   /\ sticky_chars' = Cleared(sticky_chars)
                   /\ writes' = {ClearAll}
                   /\ glyph_cells' = {}
                   /\ upd' = NoUpdate
                   /\ purged' = {}
                   /\ overdrawn' = {}
                   /\ resized' = TRUE
                   /\ pc' = "purge"
                   /\ UNCHANGED <<store, call, panicked, params, running,
                                  term, last_spawn_check, slot, clock>>
    /\ UNCHANGED aux

\* Mutant: an entry of exactly ten seconds is kept.
Retained_inclusive(ts, now) == (now - ts) * TickSecs <= RETENTION_SECS
\* matrix.rs:316: now.duration_since(*timestamp).as_secs() < 10
Retained(ts, now) == (now - ts) * TickSecs < RETENTION_SECS

\* matrix.rs:313-318: the purge of old stuck characters.
Purge ==
    /\ pc = "purge"
    /\ sticky_chars' =
         IF enable_stuck
           THEN [p \in {q \in DOMAIN sticky_chars :
                           Retained(sticky_chars[q].ts, clock)} |->
                    sticky_chars[p]]
           ELSE sticky_chars
    /\ purged' = DOMAIN sticky_chars \ DOMAIN sticky_chars'
    /\ overdrawn' = {}
    /\ writes' = {}
    /\ made' = {}
    /\ upd' = NoUpdate
    /\ pc' = "spawn"
    /\ UNCHANGED <<store, call, panicked, params, running, term, resized, cols, rows,
                   drops, last_spawn_check, slot, clock>>
    /\ UNCHANGED <<aux, glyph_cells>>

\* matrix.rs:322: now.duration_since(last_spawn_check).as_secs_f32() > 0.2
SpawnDue(now, last) == (now - last) * SpawnStepMs > SPAWN_INTERVAL_MS

\* matrix.rs:321-329: the periodic spawn into empty slots.
Spawn ==
    /\ pc = "spawn"
    /\ IF SpawnDue(SpawnWindow, last_spawn_check)
         THEN \E S \in SUBSET EmptySlots(drops) :
                /\ \A x \in EmptySlots(drops) :
                       (x \in S) \in RollOutcomes(get_new_drop_probability)
                /\ IF S # {} /\ NewPanics
                     THEN ToPanic
                     ELSE /\ \E f \in FreshFor(S) :
                               /\ drops' = Seeded(drops, f)
                               /\ made' = {f[x] : x \in S}
                          /\ last_spawn_check' = SpawnWindow
                          /\ pc' = "stuck"
                          /\ writes' = {}
                          /\ upd' = NoUpdate
                          /\ purged' = {}
                          /\ overdrawn' = {}
                          /\ UNCHANGED <<store, call, panicked, params,
                                         running, term, resized, cols, rows,
                                         sticky_chars, slot, clock>>
         ELSE /\ pc' = "stuck"
              /\ NoHistory
              /\ UNCHANGED <<store, call, panicked, params, running, term, resized,
                             grid, clock>>
    /\ UNCHANGED <<aux, glyph_cells>>

\* matrix.rs:336-340: the stuck glyphs queued, those with y < rows.
StuckWrites(sticky, rws) ==
    {[col |-> p[1], row |-> p[2], kind |-> "stuck"] :
        p \in {q \in DOMAIN sticky : q[2] < rws}}

\* matrix.rs:332-341: stuck characters are rendered before the drops.
StuckRender ==
    /\ pc = "stuck"
    /\ writes' = IF enable_stuck THEN StuckWrites(sticky_chars, rows) ELSE {}
    /\ glyph_cells' = Shown(glyph_cells, writes')
    /\ made' = {}
    /\ upd' = NoUpdate
    /\ purged' = {}
    /\ overdrawn' = {}
    /\ slot' = 0
    /\ pc' = IF cols > 0 THEN "drops" ELSE "flush"
    /\ UNCHANGED <<store, call, panicked, params, running, term, resized, cols, rows,
                   drops, sticky_chars, last_spawn_check, clock>>
    /\ UNCHANGED aux

\* matrix.rs:351: sticky_chars.insert((x, y), (ch, Instant::now()))
Inserted(sticky, c, now) ==
    [p \in DOMAIN sticky \cup {<<c.x, c.y>>} |->
        IF p = <<c.x, c.y>> THEN [ch |-> c.ch, ts |-> now] ELSE sticky[p]]

AfterSlot == IF slot + 1 < cols THEN "drops" ELSE "flush"

\* matrix.rs:344-361, one iteration of the for loop: an empty slot.
DropSkip ==
    /\ pc = "drops"
    /\ drops[slot] = None
    /\ slot' = slot + 1
    /\ pc' = AfterSlot
    /\ NoHistory
    /\ UNCHANGED <<store, call, panicked, params, running, term, resized, cols, rows,
                   drops, sticky_chars, last_spawn_check, clock>>
    /\ UNCHANGED <<aux, glyph_cells>>

Updated(u, rws) ==
    [called |-> TRUE, y |-> u.drop.y, rows |-> rws, length |-> u.drop.length,
     expired |-> u.expired]

\* matrix.rs:344-361, one iteration of the for loop: the drop is updated and
\* still falling, and is rendered.
DropRender ==
    /\ pc = "drops"
    /\ drops[slot] # None
    /\ \E adv \in Advances, jit \in Jitters, resample \in Resamples :
         LET u == Update(drops[slot], rows, adv, jit, resample)
         IN /\ ~u.expired
            /\ IF RenderPanics(u.drop, rows)
                 THEN PanicAfterUpdate(u.drop, sticky_chars,
                          ClearWrites(u.drop, rows, sticky_chars))
                 ELSE \E flick \in Flickers(u.drop, rows) :
                      /\ drops' = [drops EXCEPT ![slot] = u.drop]
                      /\ writes' = Render(u.drop, rows, sticky_chars)
                      /\ glyph_cells' =
                           Shown(Shown(glyph_cells, writes'),
                                 Flickered(writes', flick))
                      /\ sticky_chars' = RenderSticky(u.drop, rows, sticky_chars)
                      /\ made' = {}
                      /\ upd' = Updated(u, rows)
                      /\ purged' = {}
                      /\ overdrawn' = DOMAIN sticky_chars \ DOMAIN sticky_chars'
                      /\ slot' = slot + 1
                      /\ pc' = AfterSlot
                      /\ UNCHANGED <<store, call, panicked, params, running,
                                     term, resized, cols, rows, last_spawn_check, clock>>
    /\ UNCHANGED aux

\* matrix.rs:344-361, one iteration of the for loop: the drop is updated and
\* has expired; it may leave a stuck character, and is replaced.
DropReset ==
    /\ pc = "drops"
    /\ drops[slot] # None
    /\ \E adv \in Advances, roll \in RollOutcomes(get_stuck_probability) :
         LET \* The jitter draw changes the speed only: it does not
             \* show once the drop is replaced, and is drawn below for
             \* the drop a panic leaves in the slot.
             u == Update(drops[slot], rows, adv, NoJitter, NoResample)
             jittered == {Update(drops[slot], rows, adv, jit, NoResample).drop :
                             jit \in Jitters}
             rolled == enable_stuck /\ roll
             left == IF rolled /\ StickyWins(u.drop, rows, roll)
                       THEN {Inserted(sticky_chars, c, clock) :
                                c \in StickyCandidates(u.drop, rows, roll)}
                       ELSE {sticky_chars}
         IN /\ u.expired
            /\ IF enable_stuck /\ StickyPanics(u.drop, rows, roll)
                 THEN \* gen_range(0..rows) panics at matrix.rs:223, before
                      \* the insert.
                      \E d \in jittered :
                          PanicAfterUpdate(d, sticky_chars, {})
                 ELSE IF NewPanics
                 THEN \* MatrixDrop::new panics at matrix.rs:356, after the
                      \* insert of matrix.rs:351.
                      \E d \in jittered, sticky \in left :
                          PanicAfterUpdate(d, sticky, {})
                 ELSE /\ sticky_chars' \in left
                      /\ \E fresh \in NewDrops(u.drop.x) :
                           /\ drops' = [drops EXCEPT ![slot] = fresh]
                           /\ made' = {fresh}
                      /\ writes' = {}
                      /\ upd' = Updated(u, rows)
                      /\ purged' = {}
                      /\ overdrawn' = {}
                      /\ slot' = slot + 1
                      /\ pc' = AfterSlot
                      /\ UNCHANGED <<store, call, panicked, params, running,
                                     term, resized, cols, rows, last_spawn_check, clock>>
    /\ UNCHANGED <<aux, glyph_cells>>

\* An instant t after dt more ticks (or steps) have passed, on its window.
Aged(t, dt) == Max(t - dt, 0)

\* The times a frame can take: dt is the most ticks an instant held can
\* move back in it, MaxClock standing for every longer time, and ds the
\* steps the spawn check moves back, SpawnWindow standing for every longer
\* time.  An instant moves back a tick in whichever frame its age reaches
\* the next whole tick, however short the frame; it moves back two ticks
\* or more only in a frame longer than a tick, which is longer than the
\* spawn window.
FrameTimes ==
    {<<dt, ds>> \in (0..MaxClock) \X (0..SpawnWindow) :
        dt > 1 => ds = SpawnWindow}

\* The ticks each stuck timestamp moves back in a frame of time dt: a
\* frame takes a timestamp over dt tick boundaries or over one less,
\* by how far the timestamp is from its next whole tick.
TicksBack(sticky, dt) == [DOMAIN sticky -> {Max(dt - 1, 0), dt}]

\* matrix.rs:363-364: flush, then sleep(BASE_FRAME_DELAY).  Any time can
\* pass until the next iteration.  Every instant held moves back in its
\* window by the time of the frame.
Flush ==
    /\ pc = "flush"
    /\ \E t \in FrameTimes :
         /\ \E back \in TicksBack(sticky_chars, t[1]) :
              sticky_chars' =
                [p \in DOMAIN sticky_chars |->
                    [sticky_chars[p] EXCEPT !.ts = Aged(@, back[p])]]
         /\ last_spawn_check' = Aged(last_spawn_check, t[2])
    /\ pc' = "top"
    /\ resized' = FALSE
    /\ NoHistory
    /\ UNCHANGED <<store, call, panicked, params, running, term, cols, rows,
                   drops, slot, clock>>
    /\ UNCHANGED <<aux, glyph_cells>>

\* matrix.rs:367-369 with cleanup_terminal, matrix.rs:233-242: the screen
\* is cleared, the alternate screen left, raw mode disabled; run_matrix
\* returns Ok and its locals are dropped.
Cleanup ==
    /\ pc = "cleanup"
    /\ raw_mode' = FALSE
    /\ alt_screen' = FALSE
    /\ cleanups' = cleanups + 1
    /\ writes' = {ClearAll}
    /\ glyph_cells' = {}
    /\ made' = {}
    /\ purged' = {}
    /\ overdrawn' = {}
    /\ upd' = NoUpdate
    /\ pc' = "done"
    /\ cols' = 0
    /\ rows' = 0
    /\ drops' = EmptyGrid(0)
    /\ sticky_chars' = EmptyMap
    /\ last_spawn_check' = 0
    /\ slot' = 0
    /\ resized' = FALSE
    /\ UNCHANGED <<store, call, panicked, params, running, clock>>
    /\ UNCHANGED aux

\* matrix.rs:234-241 and 367-369: cleanup_terminal discards the errors of
\* execute! and of disable_raw_mode (`let _ =`), so the alternate screen or
\* raw mode stays as it was when one of them fails; the println! that
\* follows panics when stdout cannot be written, and run_matrix returns Ok
\* otherwise.  At least one of the three fails here.
CleanupFails ==
    /\ pc = "cleanup"
    /\ \E left \in BOOLEAN, disabled \in BOOLEAN, printed \in BOOLEAN :
         /\ ~(left /\ disabled /\ printed)
         /\ alt_screen' = (alt_screen /\ ~left)
         /\ raw_mode' = (raw_mode /\ ~disabled)
         /\ writes' = IF left THEN {ClearAll} ELSE {}
         /\ glyph_cells' = IF left THEN {} ELSE glyph_cells
         /\ panicked' = (panicked \/ ~printed)
         /\ pc' = IF printed THEN "done" ELSE "panicked"
    /\ cleanups' = cleanups + 1
    /\ made' = {}
    /\ purged' = {}
    /\ overdrawn' = {}
    /\ upd' = NoUpdate
    /\ cols' = 0
    /\ rows' = 0
    /\ drops' = EmptyGrid(0)
    /\ sticky_chars' = EmptyMap
    /\ last_spawn_check' = 0
    /\ slot' = 0
    /\ resized' = FALSE
    /\ UNCHANGED <<store, call, params, running, clock>>
    /\ UNCHANGED aux

\* run_matrix returns through a `?`: its locals are dropped, the terminal
\* and the running flag stay as they are.
Returned(at) ==
    /\ pc' = at
    /\ cols' = 0
    /\ rows' = 0
    /\ drops' = EmptyGrid(0)
    /\ sticky_chars' = EmptyMap
    /\ last_spawn_check' = 0
    /\ slot' = 0
    /\ resized' = FALSE
    /\ NoHistory

\* The steps of the startup that end in `?`: matrix.rs:259, 264, 265, 278.
StartupSteps == {"set_handler", "enable_raw_mode", "size", "alternate_screen"}

\* matrix.rs:253-278: a startup step returns an error.  Raw mode is on once
\* enable_raw_mode has succeeded; a failed execute! may or may not have
\* written EnterAlternateScreen.
StartupFails(step) ==
    /\ pc = IF step = "set_handler" THEN "startup" ELSE "starting"
    /\ FRAMERATE' = IF step = "set_handler" THEN FRAMERATE
                    ELSE set_framerate(F(fps * 1000))
    /\ raw_mode' = (step \in {"size", "alternate_screen"})
    /\ alt_screen' \in IF step = "alternate_screen" THEN BOOLEAN ELSE {FALSE}
    /\ Returned("startup_failed")
    /\ UNCHANGED <<MIN_TRAIL_ATOMIC, MAX_TRAIL_ATOMIC,
                   GLITCH_PROBABILITY_ATOMIC, FLICKER_PROBABILITY_ATOMIC,
                   NEW_DROP_PROBABILITY_ATOMIC, STUCK_PROBABILITY_ATOMIC, call,
                   panicked, params, running, cleanups, clock>>
    /\ UNCHANGED <<aux, glyph_cells>>

\* matrix.rs:288-289: poll(..)? or read()? returns an error.
PollFails ==
    /\ pc = "poll"
    /\ Returned("failed")
    /\ UNCHANGED <<store, call, panicked, params, running, term, clock>>
    /\ UNCHANGED <<aux, glyph_cells>>

\* matrix.rs:299: execute!(stdout, Clear(ClearType::All))? returns an error
\* while a resize event is handled.
ResizeClearFails ==
    /\ pc = "poll"
    /\ terminal.resize # {}
    /\ Returned("failed")
    /\ UNCHANGED <<store, call, panicked, params, running, term, clock>>
    /\ UNCHANGED <<aux, glyph_cells>>

\* matrix.rs:338: queue!(..)? of a stuck glyph returns an error.
StuckRenderFails ==
    /\ pc = "stuck"
    /\ enable_stuck
    /\ StuckWrites(sticky_chars, rows) # {}
    /\ Returned("failed")
    /\ UNCHANGED <<store, call, panicked, params, running, term, clock>>
    /\ UNCHANGED <<aux, glyph_cells>>

\* matrix.rs:358: drop.render(..)? returns an error from one of its queue!
\* calls.
DropRenderFails ==
    /\ pc = "drops"
    /\ drops[slot] # None
    /\ {<<adv, jit, resample>> \in Advances \X Jitters \X Resamples :
          LET u == Update(drops[slot], rows, adv, jit, resample)
          IN /\ ~u.expired
             /\ ~RenderPanics(u.drop, rows)
             /\ Render(u.drop, rows, sticky_chars) # {}} # {}
    /\ Returned("failed")
    /\ UNCHANGED <<store, call, panicked, params, running, term, clock>>
    /\ UNCHANGED <<aux, glyph_cells>>

\* matrix.rs:363: stdout.flush()? returns an error.
FlushFails ==
    /\ pc = "flush"
    /\ Returned("failed")
    /\ UNCHANGED <<store, call, panicked, params, running, term, clock>>
    /\ UNCHANGED <<aux, glyph_cells>>

Next ==
    \/ \E cli \in CliArgs : Main(cli)
    \/ SetHandler
    \/ \E size \in Sizes : Startup(size)
    \/ Interrupt
    \/ EnterFrame
    \/ ExitLoop
    \/ PollNothing
    \/ KeyQuit
    \/ \E size \in Sizes : Resize(size)
    \/ Purge
    \/ Spawn
    \/ StuckRender
    \/ DropSkip
    \/ DropRender
    \/ DropReset
    \/ Flush
    \/ Cleanup
    \/ CleanupFails
    \/ \E step \in StartupSteps : StartupFails(step)
    \/ PollFails
    \/ ResizeClearFails
    \/ StuckRenderFails
    \/ DropRenderFails
    \/ FlushFails

Spec == Init /\ [][Next]_vars

\* The steps of the thread that runs main and run_matrix, input events and
\* failed terminal operations apart (a key typed before the loop started
\* is read): the poll of matrix.rs:288 returns
\* after its timeout of one millisecond and sleep(BASE_FRAME_DELAY) of
\* matrix.rs:364 returns, so the thread takes its next step whenever it has
\* one.
MainThread ==
    \/ \E cli \in CliArgs : Main(cli)
    \/ SetHandler
    \/ \E size \in Sizes : Startup(size)
    \/ EnterFrame
    \/ ExitLoop
    \/ PollNothing
    \/ Purge
    \/ Spawn
    \/ StuckRender
    \/ DropSkip
    \/ DropRender
    \/ DropReset
    \/ Flush
    \/ Cleanup
    \/ (terminal.quit_typed /\ KeyQuit)

\* The same program under a scheduler that keeps the main thread running.
SpecLive == Init /\ [][Next]_vars /\ WF_vars(MainThread)

---------------------------------------------------------------------------
(* set_min_trail and set_max_trail called from two threads *)

\* One thread calls set_min_trail, the other set_max_trail.
Threads == {"set_min_trail", "set_max_trail"}

\* The two calls begin, with any arguments.
StartThreads(min_len, max_len) ==
    /\ ~panicked
    /\ thr = NoThreads
    /\ thr' = [t \in Threads |->
                 [at |-> "called",
                  len |-> IF t = "set_min_trail" THEN min_len ELSE max_len,
                  other |-> 0]]
    /\ UNCHANGED <<store, call, panicked, loopvars, color>>

\* matrix.rs:411 and 420: the Relaxed load of the paired bound
\* (get_max_trail() in set_min_trail, get_min_trail() in set_max_trail).
ThreadLoad(t) ==
    /\ t \in DOMAIN thr
    /\ thr[t].at = "called"
    /\ thr' = [thr EXCEPT ![t].at = "loaded",
                          ![t].other = IF t = "set_min_trail"
                                         THEN get_max_trail
                                         ELSE get_min_trail]
    /\ UNCHANGED <<store, call, panicked, loopvars, color>>

\* matrix.rs:411-412 and 420-421: the clamp against the value loaded, and
\* the Relaxed store of the result.
ThreadStore(t) ==
    /\ t \in DOMAIN thr
    /\ thr[t].at = "loaded"
    /\ IF t = "set_min_trail"
         THEN /\ panicked' = (panicked \/ SetMinTrailPanics(thr[t].other))
              /\ MIN_TRAIL_ATOMIC' =
                   IF SetMinTrailPanics(thr[t].other) THEN MIN_TRAIL_ATOMIC
                   ELSE set_min_trail(thr[t].len, thr[t].other)
              /\ UNCHANGED MAX_TRAIL_ATOMIC
         ELSE /\ panicked' = (panicked \/ SetMaxTrailPanics(thr[t].other))
              /\ MAX_TRAIL_ATOMIC' =
                   IF SetMaxTrailPanics(thr[t].other) THEN MAX_TRAIL_ATOMIC
                   ELSE set_max_trail(thr[t].len, thr[t].other)
              /\ UNCHANGED MIN_TRAIL_ATOMIC
    /\ thr' = [thr EXCEPT ![t].at = "returned"]
    /\ UNCHANGED <<FRAMERATE, GLITCH_PROBABILITY_ATOMIC,
                   FLICKER_PROBABILITY_ATOMIC, NEW_DROP_PROBABILITY_ATOMIC,
                   STUCK_PROBABILITY_ATOMIC, call, loopvars, color>>

\* Both calls have returned; the threads are joined.
JoinThreads ==
    /\ thr # NoThreads
    /\ \A t \in Threads : thr[t].at = "returned"
    /\ thr' = NoThreads
    /\ UNCHANGED <<store, call, panicked, loopvars, color>>

NextThreads ==
    \/ \E min_len \in TrailArgs, max_len \in TrailArgs :
           StartThreads(min_len, max_len)
    \/ \E t \in Threads : ThreadLoad(t)
    \/ \E t \in Threads : ThreadStore(t)
    \/ JoinThreads

SpecThreads == Init /\ [][NextThreads]_vars

---------------------------------------------------------------------------
(* MatrixColorScheme, colors.rs:5-58, and main's color validation *)

\* A u8 color code.
U8_MAX == 255
\* main.rs:92: codes above 15 are out of range.
COLOR_CODE_MAX == 15
\* main.rs:95: the code used instead.
COLOR_FALLBACK == 10

\* colors.rs:13-31: the match on the code.
AnsiColor(code) ==
    CASE code = 0 -> "Black"
      [] code = 1 -> "DarkRed"
      [] code = 2 -> "DarkGreen"
      [] code = 3 -> "DarkYellow"
      [] code = 4 -> "DarkBlue"
      [] code = 5 -> "DarkMagenta"
      [] code = 6 -> "DarkCyan"
      [] code = 7 -> "Grey"
      [] code = 8 -> "DarkGrey"
      [] code = 9 -> "Red"
      [] code = 10 -> "Green"
      [] code = 11 -> "Yellow"
      [] code = 12 -> "Blue"
      [] code = 13 -> "Magenta"
      [] code = 14 -> "Cyan"
      [] code = 15 -> "White"
      [] OTHER -> "Green"

Green == [scheme |-> "Green"]
Custom(c) == [scheme |-> "Custom", base |-> c]

\* Mutant: every code gives a custom scheme of its color.
from_ansi_code_custom(code) == Custom(AnsiColor(code))
\* MatrixColorScheme::from_ansi_code
from_ansi_code(code) ==
    IF AnsiColor(code) \in {"Green", "DarkGreen"}
      THEN Green
      ELSE Custom(AnsiColor(code))

\* MatrixColorScheme::get_colors: (bright_head, mid, dim, dark, darkest)
get_colors(sch) ==
    IF sch.scheme = "Green"
      THEN <<"White", "Green", "DarkGreen", "DarkGreen", "Black">>
      ELSE <<"White", sch.base, sch.base, sch.base, "Black">>

\* main.rs:91-101: the color argument is validated, then resolved; next to
\* it, what from_ansi_code gives for the argument as it is.
ResolveColor(arg) ==
    /\ ~color.resolved
    /\ LET color_code == IF arg > COLOR_CODE_MAX THEN COLOR_FALLBACK ELSE arg
       IN color' = [resolved |-> TRUE,
                    arg |-> arg,
                    warned |-> arg > COLOR_CODE_MAX,
                    color_code |-> color_code,
                    color_scheme |-> from_ansi_code(color_code),
                    direct |-> from_ansi_code(arg)]
    /\ UNCHANGED <<store, call, panicked, loopvars, thr>>

\* The scheme is handed to run_matrix; the next run starts afresh.
ColorDone ==
    /\ color.resolved
    /\ color' = NoColor
    /\ UNCHANGED <<store, call, panicked, loopvars, thr>>

NextColors ==
    \/ \E arg \in 0..U8_MAX : ResolveColor(arg)
    \/ ColorDone

SpecColors == Init /\ [][NextColors]_vars

---------------------------------------------------------------------------
(* Claims about the configuration store, checked under SpecStore *)

\* C1: after any sequence of set_min_trail / set_max_trail calls, with any
\* arguments and in any order, no call has panicked and
\* get_min_trail() <= get_max_trail() holds when the call has returned.
C1_MinLeMaxNoPanic ==
    /\ ~panicked
    /\ get_min_trail <= get_max_trail

\* C1 witness: a set_min_trail call whose argument was above the stored
\* max_trail has returned, and a set_max_trail call is what lowered or
\* raised max_trail before it (max_trail is no longer its initial value).
C1_Witness ==
    /\ call.op = "set_min_trail"
    /\ call.arg > get_max_trail
    /\ get_max_trail # InitMaxTrail
    /\ get_min_trail = get_max_trail

\* C2 (as claimed): a write of an in-range value v to min_trail or to
\* max_trail stores v, the paired bound giving way.
C2_WrittenValueStored ==
    /\ (call.op = "set_min_trail" /\ call.arg >= TRAIL_MIN_LIMIT
            /\ call.arg <= TRAIL_MAX_LIMIT) => get_min_trail = call.arg
    /\ (call.op = "set_max_trail" /\ call.arg >= TRAIL_MIN_LIMIT
            /\ call.arg <= TRAIL_MAX_LIMIT) => get_max_trail = call.arg

InRange(x, lo, hi) == FLe(lo, x) /\ FLe(x, hi)

\* C3 (as claimed): after any sequence of setter calls the frame rate is in
\* [1, 15], both trail bounds are in [4, 40] and every probability is in
\* [0, 1].
C3_AllTunablesInRange ==
    /\ InRange(get_framerate, FramerateMin, FramerateMax)
    /\ get_min_trail >= TRAIL_MIN_LIMIT /\ get_min_trail <= TRAIL_MAX_LIMIT
    /\ get_max_trail >= TRAIL_MIN_LIMIT /\ get_max_trail <= TRAIL_MAX_LIMIT
    /\ InRange(get_glitch_probability, ProbMin, ProbMax)
    /\ InRange(get_flicker_probability, ProbMin, ProbMax)
    /\ InRange(get_new_drop_probability, ProbMin, ProbMax)
    /\ InRange(get_stuck_probability, ProbMin, ProbMax)

---------------------------------------------------------------------------
(* Claims about the drop and the frame loop, checked under Spec *)

\* C4: every drop MatrixDrop::new has just produced (initial seeding,
\* periodic spawn, resize reseed, replacement after expiry) has its head and
\* its previous head at -length, a length within get_min_trail() ..
\* get_max_trail(), exactly `length` glyphs, and sits in the slot of its
\* column.
C4_FreshDrop ==
    \A d \in made :
        /\ d.y = 0 - d.length * Scale
        /\ d.prev_y = 0 - d.length * Scale
        /\ get_min_trail <= d.length
        /\ d.length <= get_max_trail
        /\ d.chars.len = d.length
        /\ drops[d.x] = d

\* C4 witness: a drop has expired and its replacement has been built with
\* the longest trail allowed.
C4_Witness ==
    /\ upd.called
    /\ upd.expired
    /\ \E d \in made : d.length = get_max_trail /\ d.length > get_min_trail

\* C5: update returns expired exactly when the head position after the
\* integration step is strictly greater than rows + length; the loop
\* replaces the drop when it is reported expired and keeps it otherwise.
C5_ExpiredIffPastScreen ==
    upd.called =>
        /\ upd.expired <=> upd.y > (upd.rows + upd.length) * Scale
        /\ upd.expired => made # {}
        /\ ~upd.expired => /\ made = {}
                           /\ drops[slot - 1].y = upd.y

\* C5 witness: an update has left the head exactly at rows + length, and
\* the drop was not reported expired.
C5_Witness ==
    /\ upd.called
    /\ upd.y = (upd.rows + upd.length) * Scale
    /\ ~upd.expired
    /\ drops[slot - 1] # None

\* The capacity of the stuck-character table the specification describes;
\* run_matrix has no such limit.
StuckCapacity == 1

\* C6: the stuck-character table never holds more entries than its
\* capacity.
C6_TableWithinCapacity == Cardinality(DOMAIN sticky_chars) <= StuckCapacity

\* C7: with the stuck feature enabled, from the purge of a frame to the end
\* of that frame no entry of the table is 10 seconds old or older, and
\* every stuck glyph queued in the frame belongs to such an entry.
C7_PurgedBeforeRender ==
    enable_stuck =>
        /\ pc \in {"spawn", "stuck", "drops", "flush"} =>
             \A p \in DOMAIN sticky_chars :
                 (clock - sticky_chars[p].ts) * TickSecs < 10
        /\ \A w \in writes :
             w.kind = "stuck" =>
                 /\ <<w.col, w.row>> \in DOMAIN sticky_chars
                 /\ (clock - sticky_chars[<<w.col, w.row>>].ts) * TickSecs < 10
        /\ purged # {} => pc = "spawn"

\* C7 witness: the purge of this frame has removed the entries that had
\* reached 10 seconds, two of them.
C7_Witness ==
    /\ enable_stuck
    /\ pc = "spawn"
    /\ Cardinality(purged) = 2
    /\ sticky_chars = EmptyMap

\* C8: throughout the frame loop the grid has exactly cols slots and every
\* occupied slot i holds a drop of column i; the spawn step leaves every
\* occupied slot as it is.
C8_OneDropPerColumn ==
    [][/\ InLoop' => /\ DOMAIN drops' = 0..(cols' - 1)
                     /\ \A i \in DOMAIN drops' :
                            drops'[i] # None => drops'[i].x = i
       /\ pc = "spawn" =>
              \A i \in DOMAIN drops :
                  drops[i] # None => /\ i \in DOMAIN drops'
                                     /\ drops'[i] = drops[i]]_vars

\* C8 witness: the spawn step, due in this frame, has filled the slot that
\* a resize had left empty with a drop of its column.
C8_Witness ==
    /\ pc = "stuck"
    /\ cols = 1
    /\ last_spawn_check = SpawnWindow
    /\ drops[0] # None
    /\ made = {drops[0]}

\* C9: every glyph, blank or stuck glyph queued in a frame targets a row
\* in 0 .. rows-1 and a column in 0 .. cols-1 of the current geometry.
C9_WritesOnScreen ==
    \A w \in writes :
        w.kind \in {"glyph", "blank", "stuck"} =>
            /\ 0 <= w.row
            /\ w.row < rows
            /\ 0 <= w.col
            /\ w.col < cols

\* C9 witness: a drop longer than the screen is high has been rendered
\* with its head past the last row: a glyph is queued on the last row and a
\* blank above it.
C9_Witness ==
    /\ upd.called
    /\ upd.length > rows
    /\ upd.y >= rows * Scale
    /\ \E w \in writes : w.kind = "glyph" /\ w.row = rows - 1
    /\ \E w \in writes : w.kind = "blank"

\* C10: the loop does not panic in the iteration that handles a resize
\* event, to any new (cols, rows), nor afterwards under a geometry that
\* only a resize event can have set (one the terminal never reports at
\* startup); when the event has been handled the stuck table is empty, the
\* grid has exactly the new cols slots, and every drop in it was built by
\* the resize itself.
C10_ResizeSurvived ==
    /\ ((resized \/ <<cols, rows>> \notin terminal.start) /\ cleanups = 0)
          => ~panicked
    /\ (pc = "purge" /\ ClearAll \in writes) =>
          /\ resized
          /\ sticky_chars = EmptyMap
          /\ DOMAIN drops = 0..(cols - 1)
          /\ \A i \in DOMAIN drops : drops[i] # None => drops[i] \in made

\* C11: once a quit signal has been issued (a quit key, or the interrupt
\* handler clearing the running flag at any point of a frame),
\* cleanup_terminal has run exactly once when run_matrix has ended: never
\* zero times, never more than once.
C11_CleanupExactlyOnce ==
    /\ cleanups <= 1
    /\ pc = "done" => cleanups = 1
    /\ (~running /\ pc \in {"failed", "panicked"}) => cleanups = 1

\* C12: when a terminal operation has failed during the Running phase,
\* cleanup_terminal has run before run_matrix returns the error: the
\* terminal is neither in raw mode nor in the alternate screen.
C12_CleanupOnFailure ==
    pc = "failed" => /\ cleanups = 1
                     /\ ~raw_mode
                     /\ ~alt_screen

\* C13: with rows = 0 or cols = 0 the engine does not panic while it runs
\* (up to cleanup_terminal), whatever the random draws give.
C13_NoPanicDegenerate ==
    ((rows = 0 \/ cols = 0) /\ cleanups = 0) => ~panicked

\* C14: once the interrupt handler has cleared the running flag, the
\* iteration in flight completes and the run ends through the drain path
\* of a quit key (cleanup_terminal, then return), never through an error
\* return or a panic.  A flag cleared while the program starts is not in
\* an iteration: the startup goes on to the loop top, or fails as it would
\* have with the flag set.
C14_InterruptDrains ==
    ~running => pc \in {"starting", "startup_failed", "top", "poll", "purge",
                        "spawn", "stuck", "drops", "flush", "cleanup", "done"}

\* C15: when a startup step has failed, run_matrix returns the error with
\* the terminal in its original state: raw mode is not enabled and the
\* alternate screen is not entered.
C15_StartupFailureClean ==
    pc = "startup_failed" => /\ ~raw_mode
                             /\ ~alt_screen

\* C17: for every code in 0..=255, from_ansi_code gives the Default
\* (Green) scheme exactly when the code is 2, 10 or greater than 15, and
\* otherwise Custom with a base that is not a green; the gradient of every
\* scheme has a white head and a black darkest step; main reports a code
\* above 15 with a warning and resolves 10 in its place.
C17_ColorResolution ==
    color.resolved =>
        /\ color.direct = Green <=>
               (color.arg = 2 \/ color.arg = 10 \/ color.arg > 15)
        /\ color.direct # Green =>
               /\ color.direct.scheme = "Custom"
               /\ color.direct.base \notin {"Green", "DarkGreen"}
        /\ \A sch \in {color.direct, color.color_scheme} :
               /\ get_colors(sch)[1] = "White"
               /\ get_colors(sch)[5] = "Black"
               /\ Len(get_colors(sch)) = 5
        /\ color.warned <=> color.arg > 15
        /\ color.arg > 15 => /\ color.color_code = 10
                             /\ color.color_scheme = Green
        /\ color.arg <= 15 => /\ color.color_code = color.arg
                              /\ color.color_scheme = color.direct

\* C17 witness: code 9 has been resolved to a custom scheme of base Red.
C17_Witness ==
    /\ color.resolved
    /\ color.arg = 9
    /\ color.color_scheme = [scheme |-> "Custom", base |-> "Red"]

\* C16: in every frame the stuck entries are queued before any drop is
\* updated or rendered, one write for every entry of the table; a drop's
\* render removes the stuck entry of every cell in which it queues a glyph;
\* and at the end of the frame no stuck entry is left at a cell that a
\* glyph of a live drop covers.
C16_DropsOverStuck ==
    /\ (\E w \in writes : w.kind = "stuck") =>
          /\ enable_stuck
          /\ slot = 0
          /\ ~upd.called
          /\ \A p \in DOMAIN sticky_chars :
                 [col |-> p[1], row |-> p[2], kind |-> "stuck"] \in writes
    /\ \A w \in writes :
          w.kind = "glyph" => <<w.col, w.row>> \notin DOMAIN sticky_chars
    /\ \A p \in overdrawn :
          [col |-> p[1], row |-> p[2], kind |-> "glyph"] \in writes
    /\ pc = "flush" =>
          \A x \in DOMAIN drops :
              drops[x] # None =>
                  \A i \in 1..drops[x].length, r \in 0..(rows - 1) :
                      (/\ drops[x].y - (i - 1) * Scale >= r * Scale
                       /\ drops[x].y - (i - 1) * Scale < (r + 1) * Scale)
                          => <<x, r>> \notin DOMAIN sticky_chars

\* C16 witness: a drop has been rendered over a stuck glyph and its render
\* has removed the entry, while the stuck glyph of the other row stays.
C16_Witness ==
    /\ upd.called
    /\ ~upd.expired
    /\ overdrawn # {}
    /\ sticky_chars # EmptyMap

\* C18: in the step where update reports a drop expired, the stuck entry
\* written (if any) carries the column and the last glyph the drop had
\* before the step and no other entry changes, the slot then holds a
\* fresh drop of the same column with its head at -length, and nothing is
\* rendered for the slot; an occupied slot stays occupied in every step of
\* the loop that is not a resize.
C18_ExpiryAtomic ==
    [][/\ (/\ pc = "drops"
           /\ slot' = slot + 1
           /\ upd'.called
           /\ upd'.expired) =>
              /\ drops'[slot] \in made'
              /\ drops'[slot] # None
              /\ drops'[slot].x = drops[slot].x
              /\ drops'[slot].y = 0 - drops'[slot].length * Scale
              /\ writes' = {}
              /\ \A p \in DOMAIN sticky_chars : p \in DOMAIN sticky_chars'
              /\ \A p \in DOMAIN sticky_chars' :
                     (p \notin DOMAIN sticky_chars
                         \/ sticky_chars'[p] # sticky_chars[p]) =>
                            /\ p[1] = drops[slot].x
                            /\ sticky_chars'[p].ch =
                                   drops[slot].chars.last
       /\ (InLoop /\ InLoop' /\ ClearAll \notin writes') =>
              \A x \in DOMAIN drops :
                  drops[x] # None => /\ x \in DOMAIN drops'
                                     /\ drops'[x] # None]_vars

\* C18 witness: an expired drop whose last glyph had glitched has left
\* that glyph stuck in its column, and its slot holds the replacement.
C18_Witness ==
    /\ upd.called
    /\ upd.expired
    /\ made # {}
    /\ \E p \in DOMAIN sticky_chars :
           /\ sticky_chars[p].ch \in GLITCH_CHARS
           /\ sticky_chars[p].ts = clock
           /\ drops[p[1]] \in made

\* C19: when a drop has expired and been replaced, no cell of its column
\* still shows a glyph a drop drew, unless a stuck entry occupies the
\* cell: the clearing passes have blanked every cell the tail has left.
C19_NoStaleGlyph ==
    (upd.called /\ upd.expired) =>
        \A r \in 0..(rows - 1) :
            <<slot - 1, r>> \in glyph_cells =>
                <<slot - 1, r>> \in DOMAIN sticky_chars

\* C20: when set_min_trail and set_max_trail have run on two threads, with
\* any interleaving of their loads and stores, get_min_trail() <=
\* get_max_trail() holds once both calls have returned.
C20_MinLeMaxConcurrent ==
    (thr # NoThreads /\ \A t \in Threads : thr[t].at = "returned") =>
        get_min_trail <= get_max_trail

\* C21: every entry of the stuck table lies inside the current geometry,
\* its column below cols and its row in 0..rows-1, in every state of every
\* frame and after every resize; and an entry is written only in the step
\* where update has reported the drop of the slot past rows + length, at
\* that drop's column and with its last glyph (an entry is written when it
\* is new, or its glyph or a later instant replaces the old ones).
C21_StuckInsideGeometry ==
    [][/\ \A p \in DOMAIN sticky_chars' :
              /\ p[1] \in 0..(cols' - 1)
              /\ p[2] \in 0..(rows' - 1)
       /\ \A p \in DOMAIN sticky_chars' :
              (\/ p \notin DOMAIN sticky_chars
               \/ sticky_chars'[p].ch # sticky_chars[p].ch
               \/ sticky_chars'[p].ts > sticky_chars[p].ts) =>
                     /\ pc = "drops"
                     /\ drops[slot] # None
                     /\ upd'.called
                     /\ upd'.expired
                     /\ upd'.y > (rows + drops[slot].length) * Scale
                     /\ p[1] = drops[slot].x
                     /\ p[1] = slot
                     /\ sticky_chars'[p].ch =
                            drops[slot].chars.last]_vars

\* C21 witness: on a terminal of one column and two rows, an expired drop
\* has left a stuck glyph on the bottom row, at its own column.
C21_Witness ==
    /\ cols = 1
    /\ rows = 2
    /\ upd.called
    /\ upd.expired
    /\ \E p \in DOMAIN sticky_chars :
           /\ p[2] = rows - 1
           /\ sticky_chars[p].ts = clock

\* C22: when startup has finished and the loop is about to begin, the grid
\* has cols slots of which exactly min(initial_drops, cols) are occupied,
\* each by a fresh drop of its own column, and every other slot is empty;
\* for no initial drops, fewer than cols, and more than cols.
C22_SeededDistinct ==
    (pc = "top" /\ ClearAll \in writes) =>
        /\ DOMAIN drops = 0..(cols - 1)
        /\ Cardinality(DOMAIN drops \ EmptySlots(drops)) =
               Min(initial_drops, cols)
        /\ Cardinality(made) = Min(initial_drops, cols)
        /\ \A x \in DOMAIN drops :
               drops[x] # None => /\ drops[x].x = x
                                  /\ drops[x] \in made
        /\ \A d \in made : drops[d.x] = d

\* C22 witness: two initial drops in a terminal of three columns; startup
\* has seeded the first and the last slot, each with a drop of its column,
\* and left the middle one empty.
C22_Witness ==
    /\ pc = "top"
    /\ ClearAll \in writes
    /\ initial_drops = 2
    /\ cols = 3
    /\ EmptySlots(drops) = {1}
    /\ drops[0].x = 0
    /\ drops[2].x = 2
    /\ Cardinality(made) = 2

\* C23: a step from the poll into the frame that is not a resize (the
\* poll timed out, or a key that is not a quit key or another event was
\* read) changes no engine state; and a run whose running flag stays set,
\* that is not ended by a quit key and in which no terminal operation
\* fails, reaches the flush step infinitely often.
C23_FramesForever ==
    /\ [][(pc = "poll" /\ pc' = "purge" /\ ~resized') =>
              UNCHANGED <<store, params, running, term, grid, clock,
                          glyph_cells>>]_vars
    /\ \/ <>(~running)
       \/ <>(pc \in {"cleanup", "done", "failed", "startup_failed"})
       \/ []<>(pc = "flush")

=============================================================================
